---- MODULE Spec2Model ----
(***************************************************************************)
(* Model of the audio engine of milkshaker_visualizer.                     *)
(*                                                                         *)
(*   package main  : AudioManager (src/main.go), AudioPlayer and           *)
(*                   SystemPeakAnalyzer (src/unnamed/part_014)             *)
(*   package audio : Player (src/unnamed/part_000, second revision)        *)
(*                                                                         *)
(* Amplitudes are fixed-point numbers in units of 1/Scale; sensitivities   *)
(* are in tenths.  A native stream is "nil" (no handle), "open" (opened,   *)
(* stopped), "started", or "closed" (a handle whose stream was closed).    *)
(* Device indexes are 0-based as in the source; sequences are 1-based.     *)
(***************************************************************************)
EXTENDS Integers, Sequences, FiniteSets, TLC

VARIABLES
    engine,     \* which engine object the run drives: "AudioManager" or "Player"
    am,         \* the AudioManager fields, the native stream counters, the last error
    ap,         \* the AudioPlayer fields: goroutines, ticker, peakSensitivity
    Peak,       \* SystemPeakAnalyzer.Peak
    pl,         \* the audio.Player fields
    last,       \* the last call: its name, the state before it, what it returned
    th,         \* per thread: the call it runs and the steps it has left
    locks,      \* per lock: the thread holding it for writing, the readers
    run,        \* the successful CycleDevice calls in a row, the index they began at
    draw,       \* the pattern routine being drawn: its viewport, position, cells written
    mgr,        \* the pattern Manager: Enabled of each visualizator, currentIndex, shuffle
    mp          \* the MusicPlayer: isPlaying, streamer, its goroutines, a blocked call

vars == <<engine, am, ap, Peak, pl, last, th, locks, run, draw, mgr, mp>>
conc == <<th, locks>>
aux == <<draw, mgr, mp>>

-----------------------------------------------------------------------------
(* Bounds of the model.                                                    *)

MaxSources == 1        \* pactl sources in an OS snapshot
MaxPA == 2             \* PortAudio devices in an OS snapshot
MaxGoroutines == 2     \* live visualizer goroutines
Scale == 8             \* fixed-point unit: amplitude 1.0 is Scale
MaxFrames == 1         \* frames per channel in a delivered buffer

(* Program constants.                                                      *)

DecayNum == 95         \* decay 0.95 = DecayNum / DecayDen
DecayDen == 100
HighChannels == 32     \* selectBestDevice's "high-channel" threshold
InitSensitivity == [ n |-> 5, e |-> 0 ]  \* AudioPlayer.peakSensitivity 1.0

Max2(a, b) == IF a > b THEN a ELSE b
MinOf(S) == CHOOSE x \in S : \A y \in S : x <= y
Abs(x) == IF x < 0 THEN -x ELSE x

-----------------------------------------------------------------------------
(* The OS as seen by one enumeration: the pactl source list (each source   *)
(* the monitor of a running sink or of an idle one), whether pactl works,  *)
(* and PortAudio's device list (MaxInputChannels of each device).          *)

SourceKinds == {"run", "idle"}
ChannelCounts == {0, 1, 2, HighChannels}

SeqsUpTo(S, n) == UNION { [1..k -> S] : k \in 0..n }

Snapshots ==
    [ sources : SeqsUpTo(SourceKinds, MaxSources),
      pa      : SeqsUpTo(ChannelCounts, MaxPA) ]

(* The configurations openStreamWithDevice tries, in order.                *)
Configs ==
    << [channels |-> 2, sampleRate |-> 44100],
       [channels |-> 1, sampleRate |-> 44100],
       [channels |-> 2, sampleRate |-> 48000],
       [channels |-> 1, sampleRate |-> 48000] >>

(* What the OS answers during one open: whether DefaultInputDevice works,  *)
(* the default input's channel count, and the configurations it accepts.   *)
(* PortAudio opens nothing while it is not initialized.                    *)
OpenOutcomes ==
    [ defaultOK : {TRUE}, defaultCh : {1, 2}, accepts : {{}, {1}, {2, 3}, {4}} ]
    \cup { [ defaultOK |-> FALSE, defaultCh |-> 2, accepts |-> {1} ] }

-----------------------------------------------------------------------------
(* AudioManager                                                            *)

NewAudioManager ==
    [ devices          |-> << >>,
      currentDeviceIdx |-> 0,
      paStream         |-> "nil",
      isInitialized    |-> FALSE,
      isCapturing      |-> FALSE,
      peakLevel        |-> 0,
      nativeOpen       |-> 0,      \* native streams opened and not yet closed
      paInit           |-> 0,      \* portaudio.Initialize minus Terminate
      err              |-> FALSE,  \* the error returned by the last method
      panicked         |-> FALSE ]

RECURSIVE pulseDevices_Appended(_, _)
pulseDevices_Appended(sources, devs) ==
    IF sources = << >> THEN devs
    ELSE pulseDevices_Appended(Tail(sources),
            Append(devs, [ Type |-> "pulse_monitor", Channels |-> 2,
                           ID   |-> <<"pulse", Len(devs)>>,
                           Name |-> <<"src", Len(devs)>> ]))

RECURSIVE pulseDevices(_, _)
(* detectPulseMonitorSources: a running sink's monitor is put in front,    *)
(* an idle sink's monitor at the end.                                      *)
pulseDevices(sources, devs) ==
    IF sources = << >> THEN devs
    ELSE LET d == [ Type |-> "pulse_monitor", Channels |-> 2,
                    ID   |-> <<"pulse", Len(devs)>>,
                    Name |-> <<"src", Len(devs)>> ]
         IN pulseDevices(Tail(sources),
                IF Head(sources) = "run" THEN <<d>> \o devs ELSE Append(devs, d))

detectPulseMonitorSources(s, snap) ==
    [s EXCEPT !.devices = pulseDevices(snap.sources, s.devices)]

(* The names PortAudio gives its devices; a report that states none stands *)
(* for devices with pairwise distinct names.                               *)
PANames(snap) ==
    IF "names" \in DOMAIN snap THEN snap.names
    ELSE [ i \in 1..Len(snap.pa) |-> i - 1 ]

RECURSIVE paDevices(_, _, _)
paDevices(pa, names, devs) ==
    IF pa = << >> THEN devs
    ELSE paDevices(Tail(pa), Tail(names),
            IF Head(pa) > 0
            THEN Append(devs, [ Type |-> "portaudio", Channels |-> Head(pa),
                                ID   |-> <<"pa", Head(names)>>,
                                Name |-> <<"pa", Head(names)>> ])
            ELSE devs)

detectPortAudioDevices(s, snap) ==
    [s EXCEPT !.devices = paDevices(snap.pa, PANames(snap), s.devices)]

selectBestDevice_First(s) == [s EXCEPT !.currentDeviceIdx = 0]

selectBestDevice(s) ==
    LET n == Len(s.devices)
        mon == { i \in 1..n : s.devices[i].Type = "pulse_monitor" }
        big == { i \in 1..n : s.devices[i].Type = "portaudio"
                              /\ s.devices[i].Channels >= HighChannels }
    IN [s EXCEPT !.currentDeviceIdx =
            IF mon # {} THEN MinOf(mon) - 1
            ELSE IF big # {} THEN MinOf(big) - 1
            ELSE 0]

detectAudioSources(s, snap) ==
    LET d == detectPortAudioDevices(detectPulseMonitorSources(s, snap), snap)
    IN IF Len(d.devices) = 0 THEN [d EXCEPT !.err = TRUE]
       ELSE [selectBestDevice(d) EXCEPT !.err = FALSE]

Initialize(s, snap, paOK) ==
    IF ~paOK THEN [s EXCEPT !.err = TRUE]
    ELSE LET d == detectAudioSources([s EXCEPT !.paInit = @ + 1], snap)
         IN IF d.err THEN d ELSE [d EXCEPT !.isInitialized = TRUE, !.err = FALSE]

OpenedConfig_Last(maxCh, o, initialized) ==
    LET ok == { i \in 1..Len(Configs) :
                  Configs[i].channels <= maxCh /\ i \in o.accepts /\ initialized }
    IN IF ok # {} THEN CHOOSE i \in ok : \A j \in ok : j <= i ELSE 0

(* The first configuration of the table that fits the device and that the  *)
(* native open accepts; 0 when there is none.                              *)
OpenedConfig(maxCh, o, initialized) ==
    LET ok == { i \in 1..Len(Configs) :
                  Configs[i].channels <= maxCh /\ i \in o.accepts /\ initialized }
    IN IF ok # {} THEN MinOf(ok) ELSE 0

openStreamWithDevice(s, maxCh, o) ==
    IF OpenedConfig(maxCh, o, s.paInit > 0) # 0
    THEN [s EXCEPT !.paStream = "open", !.nativeOpen = @ + 1, !.err = FALSE]
    ELSE [s EXCEPT !.err = TRUE]

openPulseMonitorDevice(s, device, o) ==
    IF ~o.defaultOK THEN [s EXCEPT !.err = TRUE]
    ELSE openStreamWithDevice(s, o.defaultCh, o)

openPortAudioDevice(s, device, o) ==
    openStreamWithDevice(s, device.Channels, o)

closeExisting(s) ==
    IF s.paStream # "nil"
    THEN [s EXCEPT !.paStream = "nil", !.nativeOpen = @ - 1]
    ELSE s

OpenCurrentDevice_NoClose(s, o) ==
    IF s.currentDeviceIdx >= Len(s.devices) THEN [s EXCEPT !.err = TRUE]
    ELSE LET device == s.devices[s.currentDeviceIdx + 1]
         IN IF device.Type = "pulse_monitor"
            THEN openPulseMonitorDevice(s, device, o)
            ELSE openPortAudioDevice(s, device, o)

OpenCurrentDevice(s, o) ==
    IF s.currentDeviceIdx >= Len(s.devices) THEN [s EXCEPT !.err = TRUE]
    ELSE LET device == s.devices[s.currentDeviceIdx + 1]
             c == closeExisting(s)
         IN IF device.Type = "pulse_monitor"
            THEN openPulseMonitorDevice(c, device, o)
            ELSE openPortAudioDevice(c, device, o)

StartCapture_FlagFirst(s, o, startOK) ==
    LET a == IF s.paStream = "nil" THEN OpenCurrentDevice(s, o) ELSE s
    IN IF s.paStream = "nil" /\ a.err THEN a
       ELSE IF ~(startOK /\ a.paStream = "open")
            THEN [a EXCEPT !.isCapturing = TRUE, !.err = TRUE]
       ELSE [a EXCEPT !.paStream = "started", !.isCapturing = TRUE, !.err = FALSE]

(* The native Start works on an opened, stopped stream when the OS lets it. *)
StartCapture(s, o, startOK) ==
    LET a == IF s.paStream = "nil" THEN OpenCurrentDevice(s, o) ELSE s
    IN IF s.paStream = "nil" /\ a.err THEN a
       ELSE IF ~(startOK /\ a.paStream = "open") THEN [a EXCEPT !.err = TRUE]
       ELSE [a EXCEPT !.paStream = "started", !.isCapturing = TRUE, !.err = FALSE]

StopCapture_KeepFlag(s) ==
    IF s.paStream # "nil" /\ s.isCapturing
    THEN [s EXCEPT !.paStream = IF @ = "started" THEN "open" ELSE @,
                   !.err = FALSE]
    ELSE [s EXCEPT !.err = FALSE]

StopCapture_ErrWhenStopped(s) ==
    IF s.paStream # "nil" /\ s.isCapturing
    THEN [s EXCEPT !.paStream = IF @ = "started" THEN "open" ELSE @,
                   !.isCapturing = FALSE, !.err = FALSE]
    ELSE [s EXCEPT !.err = TRUE]

StopCapture(s) ==
    IF s.paStream # "nil" /\ s.isCapturing
    THEN [s EXCEPT !.paStream = IF @ = "started" THEN "open" ELSE @,
                   !.isCapturing = FALSE, !.err = FALSE]
    ELSE [s EXCEPT !.err = FALSE]

CycleDevice_SkipOne(s, o, startOK) ==
    LET wasCapturing == s.isCapturing
        a == IF wasCapturing THEN StopCapture(s) ELSE s
    IN IF Len(a.devices) = 0 THEN [a EXCEPT !.panicked = TRUE]
       ELSE LET b == [a EXCEPT !.currentDeviceIdx = (@ + 2) % Len(a.devices)]
                c == OpenCurrentDevice(b, o)
            IN IF c.err THEN c
               ELSE IF wasCapturing THEN StartCapture(c, o, startOK)
               ELSE [c EXCEPT !.err = FALSE]

(* With no devices the modulo panics (integer divide by zero).             *)
CycleDevice(s, o, startOK) ==
    LET wasCapturing == s.isCapturing
        a == IF wasCapturing THEN StopCapture(s) ELSE s
    IN IF Len(a.devices) = 0 THEN [a EXCEPT !.panicked = TRUE]
       ELSE LET b == [a EXCEPT !.currentDeviceIdx = (@ + 1) % Len(a.devices)]
                c == OpenCurrentDevice(b, o)
            IN IF c.err THEN c
               ELSE IF wasCapturing THEN StartCapture(c, o, startOK)
               ELSE [c EXCEPT !.err = FALSE]

GetCurrentDeviceName(s) ==
    IF s.currentDeviceIdx >= Len(s.devices) THEN <<"Unknown">>
    ELSE s.devices[s.currentDeviceIdx + 1].Name

IsCapturing(s) == s.isCapturing

Cleanup(s) ==
    LET a == closeExisting(StopCapture(s))
    IN IF a.isInitialized
       THEN [a EXCEPT !.paInit = @ - 1, !.isInitialized = FALSE]
       ELSE a

-----------------------------------------------------------------------------
(* audio.Player                                                            *)

(* A PortAudio device as Player.Initialize sees it: its input channels and *)
(* what its name matches: "pulse" (contains pulse or pipewire), "monitor"  *)
(* (contains monitor, or is part of the monitor source's name), "hw".      *)
NameClasses == {"pulse", "monitor", "hw"}
PlayerChannels == {0, 1, 2}

PlayerSnapshots ==
    [ monitorSource : BOOLEAN,
      pa : SeqsUpTo([ch : PlayerChannels, class : NameClasses], MaxPA) ]

NewPlayer ==
    [ devices          |-> << >>,
      currentDeviceIdx |-> 0,
      paStream         |-> "nil",
      running          |-> FALSE,
      nativeOpen       |-> 0,
      paInit           |-> 0,
      badTerminate     |-> FALSE,  \* Terminate was called on an uninitialized PortAudio
      err              |-> FALSE ]

(* openStream closes the old stream and keeps what OpenStream returns: the  *)
(* new stream, or nil with the error.                                      *)
PlayerOpenStream(p, device, openOK) ==
    LET c == IF p.paStream \in {"open", "started"}
             THEN [p EXCEPT !.paStream = "closed", !.nativeOpen = @ - 1]
             ELSE p
    IN IF openOK /\ c.paInit > 0
       THEN [c EXCEPT !.paStream = "open", !.nativeOpen = @ + 1, !.err = FALSE]
       ELSE [c EXCEPT !.paStream = "nil", !.err = TRUE]

PlayerSelect(devs, monitorSource) ==
    LET n == Len(devs)
        first == { i \in 1..n : monitorSource /\ devs[i].class \in {"pulse", "monitor"} }
        second == { i \in 1..n : devs[i].class = "pulse" }
        third == { i \in 1..n : devs[i].ch >= 2 }
    IN IF first # {} THEN MinOf(first)
       ELSE IF second # {} THEN MinOf(second)
       ELSE IF third # {} THEN MinOf(third)
       ELSE 1

PlayerInitialize(p, snap, paOK, devicesOK, openOK) ==
    IF ~paOK THEN [p EXCEPT !.err = TRUE]
    ELSE LET q == [p EXCEPT !.paInit = @ + 1]
         IN IF ~devicesOK THEN [q EXCEPT !.err = TRUE]
            ELSE LET devs == SelectSeq(snap.pa, LAMBDA d : d.ch > 0)
                     r == [q EXCEPT !.devices = devs]
                 IN IF Len(devs) = 0 THEN [r EXCEPT !.err = TRUE]
                    ELSE LET sel == PlayerSelect(devs, snap.monitorSource)
                         IN PlayerOpenStream([r EXCEPT !.currentDeviceIdx = sel - 1],
                                             devs[sel], openOK)

PlayerStart(p, startOK) ==
    IF p.paStream = "nil" THEN [p EXCEPT !.err = TRUE]
    ELSE IF ~(startOK /\ p.paStream = "open") THEN [p EXCEPT !.err = TRUE]
    ELSE [p EXCEPT !.paStream = "started", !.running = TRUE, !.err = FALSE]

PlayerStop(p) ==
    IF p.paStream # "nil" /\ p.running
    THEN [p EXCEPT !.paStream = IF @ = "started" THEN "open" ELSE @,
                   !.running = FALSE, !.err = FALSE]
    ELSE [p EXCEPT !.err = FALSE]

PlayerRestart(p, startOK) == PlayerStart(PlayerStop(p), startOK)

PlayerCleanup(p) ==
    LET a == PlayerStop(p)
        b == IF a.paStream \in {"open", "started"}
             THEN [a EXCEPT !.paStream = "closed", !.nativeOpen = @ - 1]
             ELSE a
    IN [b EXCEPT !.badTerminate = @ \/ b.paInit = 0,
                 !.paInit = Max2(@ - 1, 0), !.err = FALSE]

PlayerCycleDevice(p, openOK, reopenOK, startOK) ==
    IF Len(p.devices) <= 1 THEN [p EXCEPT !.err = FALSE]
    ELSE LET wasRunning == p.running
             prevDeviceIdx == p.currentDeviceIdx
             a == [p EXCEPT !.currentDeviceIdx = (@ + 1) % Len(p.devices)]
             b == IF wasRunning THEN PlayerStop(a) ELSE a
             c == PlayerOpenStream(b, b.devices[b.currentDeviceIdx + 1], openOK)
         IN IF c.err
            THEN LET d == PlayerOpenStream([c EXCEPT !.currentDeviceIdx = prevDeviceIdx],
                                           c.devices[prevDeviceIdx + 1], reopenOK)
                 IN IF wasRunning THEN PlayerStart(d, startOK) ELSE d
            ELSE IF wasRunning THEN PlayerStart(c, startOK) ELSE c

-----------------------------------------------------------------------------
(* SystemPeakAnalyzer                                                      *)

(* a.Peak *= a.decay in float64, with the value counted in units of its    *)
(* spacing: the product is rounded to the nearest unit.  The constant 0.95 *)
(* is stored as 0.94999999999999995559, so a product that would fall       *)
(* exactly between two units lies below the middle and is rounded down.    *)
Decayed(e) ==
    LET q == (e * DecayNum) \div DecayDen
        r == (e * DecayNum) % DecayDen
    IN IF 2 * r > DecayDen THEN q + 1 ELSE q

UpdatePeak_NoDecay(e, peak) == IF peak > e THEN peak ELSE e

UpdatePeak(e, peak) ==
    LET decayed == Decayed(e)
    IN IF peak > decayed THEN peak ELSE decayed

GetPeak(e) == e

-----------------------------------------------------------------------------
(* AudioManager.audioCallback and AudioPlayer                              *)

Samples == {-Scale, 0, Scale \div 2}
Channels == UNION { [1..k -> Samples] : k \in 0..MaxFrames }
Buffers == UNION { [1..c -> Channels] : c \in 0..2 }

BufferPeak(inputBuffer) ==
    LET all == UNION { { Abs(inputBuffer[c][f]) : f \in 1..Len(inputBuffer[c]) } :
                         c \in 1..Len(inputBuffer) }
    IN IF all = {} THEN 0 ELSE CHOOSE m \in all : \A x \in all : x <= m

audioCallback(s, inputBuffer) ==
    IF Len(inputBuffer) = 0 THEN s
    ELSE [s EXCEPT !.peakLevel = BufferPeak(inputBuffer)]

GetPeakLevel(s) == s.peakLevel * 100

NewAudioPlayer ==
    [ goroutines      |-> 0,      \* live goroutines spawned by Start
      ticker          |-> "nil",  \* visualizerTicker: "nil", "running", "stopped"
      peakSensitivity |-> InitSensitivity,
      updateInfoFunc  |-> FALSE ] \* whether updateInfoFunc is set

(* A float64 sensitivity, exactly: [n, e] is n/5 + e * 2^-55 / 5, that is  *)
(* n * 2^55 + e in units of a fifth of 2^-55.  Every float64 between 2^-3  *)
(* and 8 is a whole multiple of 2^-55, and e stays small.                  *)
FloatLess(v, w) == v.n < w.n \/ (v.n = w.n /\ v.e < w.e)

RECURSIVE Pow2Mod(_, _)
Pow2Mod(k, m) == IF k = 0 THEN 1 % m ELSE (2 * Pow2Mod(k - 1, m)) % m

(* The spacing of the float64 values around v, in the same units: 2^-50    *)
(* in [4, 8), halved in each binade below, 2^-55 under 0.25.               *)
Spacing(v) ==
    IF ~FloatLess(v, [n |-> 20, e |-> 0]) THEN 160
    ELSE IF ~FloatLess(v, [n |-> 10, e |-> 0]) THEN 80
    ELSE IF ~FloatLess(v, [n |-> 5, e |-> 0]) THEN 40
    ELSE IF v.n >= 3 THEN 20
    ELSE IF v.n >= 2 THEN 10
    ELSE 5

(* The exact result v rounded to the nearest float64, ties to even.        *)
RoundFloat(v) ==
    LET m == Spacing(v)
        s == (v.n * Pow2Mod(55, 2 * m) + v.e) % (2 * m)
        r == s % m
    IN IF 2 * r < m \/ (2 * r = m /\ s < m)
       THEN [v EXCEPT !.e = @ - r]
       ELSE [v EXCEPT !.e = @ + (m - r)]

(* The constant 0.2 of the source, as the compiler stores it.              *)
Fifth == RoundFloat([n |-> 1, e |-> 0])

(* The value the visualizer goroutine passes to UpdatePeak on a tick, in   *)
(* the units of the levels.                                                *)
TickPeak(s, a) == (GetPeakLevel(s) * a.peakSensitivity.n) \div (100 * 5)

apStart(a) == [a EXCEPT !.goroutines = @ + 1, !.ticker = "running"]

(* The stop signal is a non-blocking send: a goroutine waiting in its      *)
(* select receives it and returns; otherwise it is dropped.                *)
apStop(a, received) ==
    [a EXCEPT !.goroutines = IF received /\ @ > 0 THEN @ - 1 ELSE @,
              !.ticker = IF @ = "nil" THEN "nil" ELSE "stopped"]

IncreaseSensitivity(a) ==
    IF FloatLess(a.peakSensitivity, [n |-> 25, e |-> 0])
    THEN [a EXCEPT !.peakSensitivity =
              RoundFloat([n |-> @.n + Fifth.n, e |-> @.e + Fifth.e])]
    ELSE a

DecreaseSensitivity(a) ==
    IF FloatLess(Fifth, a.peakSensitivity)
    THEN [a EXCEPT !.peakSensitivity =
              RoundFloat([n |-> @.n - Fifth.n, e |-> @.e - Fifth.e])]
    ELSE a

-----------------------------------------------------------------------------
(* The calls, as actions.  last records the call for the properties.       *)

Before(s) ==
    [ idx |-> s.currentDeviceIdx, stream |-> s.paStream,
      capturing |-> IF engine = "Player" THEN s.running ELSE s.isCapturing ]

Called(op, pre, e, fed) ==
    [ op |-> op, err |-> e, pre |-> Before(pre), prePeak |-> Peak, fed |-> fed ]

OnManager == engine = "AudioManager" /\ ~am.panicked
OnPlayer == engine = "Player"

APInitialize ==
    /\ OnManager
    /\ last.op = "new"
    /\ \E snap \in Snapshots, paOK \in BOOLEAN :
          /\ am' = Initialize(am, snap, paOK)
          /\ last' = Called("Initialize", am, am'.err, 0)
    /\ UNCHANGED <<engine, ap, Peak, pl, conc, run, aux>>

APStart ==
    /\ OnManager
    /\ ap.goroutines < MaxGoroutines
    /\ \E o \in OpenOutcomes, startOK \in BOOLEAN :
          /\ am' = StartCapture(am, o, startOK)
          /\ last' = Called("Start", am, am'.err, 0)
    /\ ap' = apStart(ap)
    /\ UNCHANGED <<engine, Peak, pl, conc, run, aux>>

APStop ==
    /\ OnManager
    /\ \E received \in BOOLEAN :
          /\ received => ap.goroutines > 0
          /\ ap' = apStop(ap, received)
    /\ am' = StopCapture(am)
    /\ last' = Called("Stop", am, am'.err, 0)
    /\ UNCHANGED <<engine, Peak, pl, conc, run, aux>>

APRestart ==
    /\ OnManager
    /\ \E received \in BOOLEAN, o \in OpenOutcomes, startOK \in BOOLEAN :
          LET stopped == IsCapturing(am)
              a == IF stopped THEN apStop(ap, received) ELSE ap
              s == IF stopped THEN StopCapture(am) ELSE am
          IN /\ received => (stopped /\ ap.goroutines > 0)
             /\ a.goroutines < MaxGoroutines
             /\ ap' = apStart(a)
             /\ am' = StartCapture(s, o, startOK)
             /\ last' = Called("Restart", am, am'.err, 0)
    /\ UNCHANGED <<engine, Peak, pl, conc, run, aux>>

APCycleDevice ==
    /\ OnManager
    /\ \E o \in OpenOutcomes, startOK \in BOOLEAN :
          /\ am' = CycleDevice(am, o, startOK)
          /\ last' = Called("CycleDevice", am, am'.err, 0)
    /\ UNCHANGED <<engine, ap, Peak, pl, conc, run, aux>>

APCleanup ==
    /\ OnManager
    /\ \E received \in BOOLEAN :
          /\ received => ap.goroutines > 0
          /\ ap' = apStop(ap, received)
    /\ am' = Cleanup(am)
    /\ last' = Called("Cleanup", am, FALSE, 0)
    /\ UNCHANGED <<engine, Peak, pl, conc, run, aux>>

AMOpenCurrentDevice ==
    /\ OnManager
    /\ \E o \in OpenOutcomes :
          /\ am' = OpenCurrentDevice(am, o)
          /\ last' = Called("OpenCurrentDevice", am, am'.err, 0)
    /\ UNCHANGED <<engine, ap, Peak, pl, conc, run, aux>>

(* PortAudio delivers buffers while the stream is started.                 *)
AudioCallback ==
    /\ OnManager
    /\ am.paStream = "started"
    /\ \E inputBuffer \in Buffers :
          am' = audioCallback(am, inputBuffer)
    /\ last' = Called("audioCallback", am, FALSE, 0)
    /\ UNCHANGED <<engine, ap, Peak, pl, conc, run, aux>>

(* One tick of a visualizer goroutine.                                     *)
Tick ==
    /\ OnManager
    /\ ap.goroutines > 0
    /\ ap.ticker = "running"
    /\ Peak' = UpdatePeak(Peak, TickPeak(am, ap))
    /\ last' = Called("Tick", am, FALSE, TickPeak(am, ap))
    /\ UNCHANGED <<engine, am, ap, pl, conc, run, aux>>

APIncreaseSensitivity ==
    /\ OnManager
    /\ ap' = IncreaseSensitivity(ap)
    /\ last' = Called("IncreaseSensitivity", am, FALSE, 0)
    /\ UNCHANGED <<engine, am, Peak, pl, conc, run, aux>>

APDecreaseSensitivity ==
    /\ OnManager
    /\ ap' = DecreaseSensitivity(ap)
    /\ last' = Called("DecreaseSensitivity", am, FALSE, 0)
    /\ UNCHANGED <<engine, am, Peak, pl, conc, run, aux>>

PInitialize ==
    /\ OnPlayer
    /\ last.op = "new"
    /\ \E snap \in PlayerSnapshots, paOK, devicesOK, openOK \in BOOLEAN :
          /\ pl' = PlayerInitialize(pl, snap, paOK, devicesOK, openOK)
          /\ last' = Called("Initialize", pl, pl'.err, 0)
    /\ UNCHANGED <<engine, am, ap, Peak, conc, run, aux>>

PStart ==
    /\ OnPlayer
    /\ \E startOK \in BOOLEAN :
          /\ pl' = PlayerStart(pl, startOK)
          /\ last' = Called("Start", pl, pl'.err, 0)
    /\ UNCHANGED <<engine, am, ap, Peak, conc, run, aux>>

PStop ==
    /\ OnPlayer
    /\ pl' = PlayerStop(pl)
    /\ last' = Called("Stop", pl, FALSE, 0)
    /\ UNCHANGED <<engine, am, ap, Peak, conc, run, aux>>

PRestart ==
    /\ OnPlayer
    /\ \E startOK \in BOOLEAN :
          /\ pl' = PlayerRestart(pl, startOK)
          /\ last' = Called("Restart", pl, pl'.err, 0)
    /\ UNCHANGED <<engine, am, ap, Peak, conc, run, aux>>

PCycleDevice ==
    /\ OnPlayer
    /\ \E openOK, reopenOK, startOK \in BOOLEAN :
          /\ pl' = PlayerCycleDevice(pl, openOK, reopenOK, startOK)
          /\ last' = Called("CycleDevice", pl, pl'.err, 0)
    /\ UNCHANGED <<engine, am, ap, Peak, conc, run, aux>>

PCleanup ==
    /\ OnPlayer
    /\ pl' = PlayerCleanup(pl)
    /\ last' = Called("Cleanup", pl, FALSE, 0)
    /\ UNCHANGED <<engine, am, ap, Peak, conc, run, aux>>

-----------------------------------------------------------------------------
(* Threads.  A call is run one step at a time: a step takes or releases a  *)
(* lock, or touches fields (acc: the fields it reads "r" and writes "w")   *)
(* and has an effect on the engine.  The steps below record which fields a *)
(* method touches under which lock; the amplitudes themselves are the      *)
(* matter of SpecSignal.                                                   *)
(*                                                                         *)
(*   "cb"      PortAudio's callback thread                                 *)
(*   "viz"     a visualizer goroutine spawned by AudioPlayer.Start         *)
(*   "ui"      the goroutine of tview's Application.Run: it runs the input *)
(*             capture for each key and the redraws queued by Draw(), one  *)
(*             at a time                                                   *)
(*   "render"  the goroutine of AudioPlayerMain that calls app.Draw(),     *)
(*             which queues a redraw and waits until the loop has run it   *)
(*             (tview on tcell/v2, as imported at main.go:16-18: Draw is   *)
(*             QueueUpdate of the draw, run by the loop of Run)            *)
(*   "c1","c2" two callers of AudioPlayer's control methods                *)

Threads == {"cb", "viz", "ui", "render", "c1", "c2", "test", "satcb"}
Callers == {"c1", "c2"}
LockNames == {"captureLock", "mutex", "peakMutex", "satMutex"}

NoRun == [ n |-> 0, from |-> 0 ]

Idle == [ op |-> "idle", prog |-> << >>, wasCapturing |-> FALSE, begun |-> FALSE ]
AllIdle == [ t \in Threads |-> Idle ]
FreeLocks == [ l \in LockNames |-> [ w |-> "none", r |-> {} ] ]

Lock(l) == [ k |-> "Lock", l |-> l, acc |-> {}, eff |-> "none" ]
Unlock(l) == [ k |-> "Unlock", l |-> l, acc |-> {}, eff |-> "none" ]
RLock(l) == [ k |-> "RLock", l |-> l, acc |-> {}, eff |-> "none" ]
RUnlock(l) == [ k |-> "RUnlock", l |-> l, acc |-> {}, eff |-> "none" ]
Do(acc, eff) == [ k |-> "Do", l |-> "none", acc |-> acc, eff |-> eff ]
R(f) == <<f, "r">>
W(f) == <<f, "w">>

audioCallbackProgram_NoLock ==
    << Do({W("peakLevel"), W("lastAudioTime")}, "audioCallback") >>

audioCallbackProgram ==
    << Lock("mutex"),
       Do({W("peakLevel"), W("lastAudioTime")}, "audioCallback"),
       Unlock("mutex") >>

GetPeakLevelProgram ==
    << RLock("mutex"), Do({R("peakLevel")}, "none"), RUnlock("mutex") >>

GetTimeSinceLastAudioProgram ==
    << RLock("mutex"), Do({R("lastAudioTime")}, "none"), RUnlock("mutex") >>

UpdatePeakProgram ==
    << Lock("peakMutex"), Do({R("Peak"), W("Peak")}, "UpdatePeak"),
       Unlock("peakMutex") >>

GetPeakProgram ==
    << RLock("peakMutex"), Do({R("Peak")}, "none"), RUnlock("peakMutex") >>

(* FibonacciVisualizer.UpdateWithPeak writes points, scale and depth, and   *)
(* FibonacciVisualizer.Draw reads them; neither takes a lock.              *)
VisualizerState == {"points", "scale", "depth"}

UpdateWithPeakProgram ==
    << Do({W("points"), W("scale"), W("depth")}, "none") >>

VisualizerDrawProgram ==
    << Do({R("depth"), R("points"), R("scale")}, "none") >>

(* One tick of the visualizer goroutine.                                   *)
TickProgram ==
    GetPeakLevelProgram \o UpdatePeakProgram \o GetPeakProgram
    \o UpdateWithPeakProgram

(* GetCurrentTrack reads the flag and, when capturing, the time of the     *)
(* last audio.                                                             *)
GetCurrentTrackProgram == << Do({R("isCapturing")}, "GetCurrentTrack") >>

GetCurrentDeviceNameProgram ==
    << Do({R("currentDeviceIdx"), R("devices")}, "none") >>

updateInfoProgram ==
    GetCurrentTrackProgram \o GetPeakLevelProgram \o GetCurrentDeviceNameProgram

SetUpdateInfoFunc(a) == [a EXCEPT !.updateInfoFunc = TRUE]

updateInfoFunc(a) == IF a.updateInfoFunc THEN updateInfoProgram ELSE << >>

StartCaptureAccess ==
    { R("paStream"), W("paStream"), R("currentDeviceIdx"), R("devices"),
      W("isCapturing") }

StopCaptureAccess == { R("paStream"), R("isCapturing"), W("isCapturing") }

StartProgram(a) ==
    << Lock("captureLock") >> \o updateInfoFunc(a)
    \o << Do({}, "spawn"), Do(StartCaptureAccess, "StartCapture"),
          Unlock("captureLock") >>

StopProgram(a) ==
    << Lock("captureLock"), Do({}, "signal") >> \o updateInfoFunc(a)
    \o << Do(StopCaptureAccess, "StopCapture"), Unlock("captureLock") >>

(* Restart reads the flag, then calls Stop, sleeps and calls Start, or     *)
(* calls Start alone.                                                      *)
RestartProgram == << Do({R("isCapturing")}, "Restart") >>

RestartRest_NoStop(a, capturing) ==
    StartProgram(a)

RestartRest(a, capturing) ==
    IF capturing THEN StopProgram(a) \o << Do({}, "Sleep") >> \o StartProgram(a)
    ELSE StartProgram(a)

(* AudioPlayer.CycleDevice: AudioManager.CycleDevice, then updateInfoFunc. *)
CycleDeviceProgram(a) ==
    << Do({R("isCapturing")}, "wasCapturing"),
       Do(StopCaptureAccess, "StopIfCapturing"),
       Do({R("currentDeviceIdx"), W("currentDeviceIdx"), R("devices")}, "advance"),
       Do({R("currentDeviceIdx"), R("devices"), R("paStream"), W("paStream")},
          "OpenCurrentDevice"),
       Do(StartCaptureAccess, "StartIfCapturing") >>
    \o updateInfoFunc(a)

ControlCalls == {"Start", "Stop", "Restart", "CycleDevice"}

ControlProgram(a, call) ==
    CASE call = "Start" -> StartProgram(a)
      [] call = "Stop" -> StopProgram(a)
      [] call = "Restart" -> RestartProgram
      [] call = "CycleDevice" -> CycleDeviceProgram(a)

(* The input capture: the call of the key, then updateInfo.  The keys     *)
(* that change the sensitivity touch no field of AudioManager; Ctrl+C      *)
(* ends the loop, and Cleanup then runs on the goroutine that ran it.      *)
Keys == {"s", "r", "d"}

KeyProgram(a, key) ==
    ( CASE key = "s" -> << Do({R("isCapturing")}, "toggle") >>
        [] key = "r" -> RestartProgram
        [] key = "d" -> CycleDeviceProgram(a) )
    \o updateInfoProgram

(* The draw function of the full-screen box draws the visualizer and      *)
(* reads IsCapturing().                                                    *)
DrawProgram == VisualizerDrawProgram \o << Do({R("isCapturing")}, "none") >>

(* The answers of the OS to the opens made by a step.                      *)
StepOutcomes ==
    { [ defaultOK |-> TRUE, defaultCh |-> 2, accepts |-> {1} ],
      [ defaultOK |-> FALSE, defaultCh |-> 2, accepts |-> {} ] }

OpeningEffects == {"StartCapture", "OpenCurrentDevice", "StartIfCapturing"}

(* The engine after a step's effect.                                       *)
amAfter(t, eff, o, startOK) ==
    CASE eff = "StartCapture" -> StartCapture(am, o, startOK)
      [] eff = "StopCapture" -> StopCapture(am)
      [] eff = "StopIfCapturing" ->
            IF th[t].wasCapturing THEN StopCapture(am) ELSE am
      [] eff = "advance" ->
            IF Len(am.devices) = 0 THEN [am EXCEPT !.panicked = TRUE]
            ELSE [am EXCEPT !.currentDeviceIdx = (@ + 1) % Len(am.devices)]
      [] eff = "OpenCurrentDevice" -> OpenCurrentDevice(am, o)
      [] eff = "StartIfCapturing" ->
            IF th[t].wasCapturing THEN StartCapture(am, o, startOK)
            ELSE [am EXCEPT !.err = FALSE]
      [] OTHER -> am

(* The stop signal is received when a goroutine waits in its select.       *)
Waiting == ap.goroutines - (IF th["viz"].op = "idle" THEN 0 ELSE 1)

apAfter(eff) ==
    CASE eff = "spawn" -> apStart(ap)
      [] eff = "signal" -> apStop(ap, Waiting > 0)
      [] OTHER -> ap

(* The steps the thread has left after the step.                           *)
progAfter(eff, rest, s) ==
    CASE eff = "Restart" -> RestartRest(ap, am.isCapturing) \o rest
      [] eff = "toggle" ->
            (IF am.isCapturing THEN StopProgram(ap) ELSE StartProgram(ap)) \o rest
      [] eff = "GetCurrentTrack" ->
            IF am.isCapturing THEN GetTimeSinceLastAudioProgram \o rest ELSE rest
      [] eff = "OpenCurrentDevice" -> IF s.err THEN Tail(rest) ELSE rest
      [] OTHER -> rest

(* The thread after a step; a queued redraw that has run releases the      *)
(* goroutine that waits for it.                                            *)
Advance(t, rest, was) ==
    IF rest = << >>
    THEN [ u \in Threads |->
             IF u = t \/ (u = "render" /\ th[t].op = "draw") THEN Idle ELSE th[u] ]
    ELSE [ th EXCEPT ![t] = [ @ EXCEPT !.prog = rest, !.begun = TRUE,
                                       !.wasCapturing = was ] ]

Running(t) == th[t].prog # << >>
NextStep(t) == Head(th[t].prog)

StepLock(t) ==
    /\ Running(t) /\ NextStep(t).k = "Lock"
    /\ locks[NextStep(t).l] = [ w |-> "none", r |-> {} ]
    /\ locks' = [ locks EXCEPT ![NextStep(t).l].w = t ]
    /\ th' = Advance(t, Tail(th[t].prog), th[t].wasCapturing)
    /\ UNCHANGED <<engine, am, ap, Peak, pl, last, run, aux>>

StepUnlock(t) ==
    /\ Running(t) /\ NextStep(t).k = "Unlock"
    /\ locks' = [ locks EXCEPT ![NextStep(t).l].w = "none" ]
    /\ th' = Advance(t, Tail(th[t].prog), th[t].wasCapturing)
    /\ UNCHANGED <<engine, am, ap, Peak, pl, last, run, aux>>

StepRLock(t) ==
    /\ Running(t) /\ NextStep(t).k = "RLock"
    /\ locks[NextStep(t).l].w = "none"
    /\ locks' = [ locks EXCEPT ![NextStep(t).l].r = @ \cup {t} ]
    /\ th' = Advance(t, Tail(th[t].prog), th[t].wasCapturing)
    /\ UNCHANGED <<engine, am, ap, Peak, pl, last, run, aux>>

StepRUnlock(t) ==
    /\ Running(t) /\ NextStep(t).k = "RUnlock"
    /\ locks' = [ locks EXCEPT ![NextStep(t).l].r = @ \ {t} ]
    /\ th' = Advance(t, Tail(th[t].prog), th[t].wasCapturing)
    /\ UNCHANGED <<engine, am, ap, Peak, pl, last, run, aux>>

StepDo(t) ==
    /\ Running(t) /\ NextStep(t).k = "Do"
    /\ ~am.panicked
    /\ NextStep(t).eff = "spawn" => ap.goroutines < MaxGoroutines
    /\ \E o \in StepOutcomes, startOK \in BOOLEAN :
          LET eff == NextStep(t).eff
              s == amAfter(t, eff, o, startOK)
              was == IF eff \in {"wasCapturing", "Restart"} THEN am.isCapturing
                     ELSE th[t].wasCapturing
          IN /\ eff \notin OpeningEffects => (o.defaultOK /\ startOK)
             /\ am' = s
             /\ ap' = apAfter(eff)
             /\ th' = Advance(t, progAfter(eff, Tail(th[t].prog), s), was)
    /\ UNCHANGED <<engine, Peak, pl, last, locks, run, aux>>

Step(t) ==
    \/ StepLock(t) \/ StepUnlock(t) \/ StepRLock(t) \/ StepRUnlock(t)
    \/ StepDo(t)

Begin(t, op, prog) ==
    /\ engine = "AudioManager" /\ ~am.panicked
    /\ th[t].op = "idle"
    /\ th' = [ th EXCEPT ![t] = [ Idle EXCEPT !.op = op, !.prog = prog ] ]
    /\ UNCHANGED <<engine, am, ap, Peak, pl, last, locks, run, aux>>

(* PortAudio calls back while the stream is started.                       *)
Callback ==
    /\ am.paStream = "started"
    /\ Begin("cb", "audioCallback", audioCallbackProgram)

(* The ticker of a live visualizer goroutine fires.                        *)
TickerFires ==
    /\ ap.goroutines > 0 /\ ap.ticker = "running"
    /\ Begin("viz", "tick", TickProgram)

(* app.Draw(): the render goroutine queues a redraw and waits.             *)
QueueDraw == Begin("render", "Draw", << >>)

(* The event loop takes the queued redraw.                                 *)
Redraw ==
    /\ th["render"].op = "Draw"
    /\ Begin("ui", "draw", DrawProgram)

(* The event loop takes a key.                                             *)
KeyPressed == \E key \in Keys : Begin("ui", key, KeyProgram(ap, key))

(* A caller enters a control method of AudioPlayer.                        *)
ControlCall(t) ==
    \E call \in ControlCalls : Begin(t, call, ControlProgram(ap, call))

-----------------------------------------------------------------------------
(* The pattern routines of the visualizer.                                 *)

MaxWidth == 3
MaxHeight == 3
WalkIterations == 100  \* drawRandomWalk: for i := 0; i < 100; i++

NoDraw ==
    [ fn |-> "none", width |-> 0, height |-> 0, x |-> 0, y |-> 0, i |-> 0,
      cells |-> {} ]   \* the cells of the SetContent calls made

RECURSIVE ZigZag(_, _, _, _, _, _)
(* The loop of drawZigZag from column x on: the cell is written, the step  *)
(* turns round when y is at or beyond the top or the bottom row, y moves.  *)
ZigZag(x, y, step, width, height, cells) ==
    IF ~(x < width) THEN cells
    ELSE LET turned == IF y >= height - 1 \/ y <= 0 THEN -step ELSE step
         IN ZigZag(x + 1, y + turned, turned, width, height, cells \cup {<<x, y>>})

drawZigZag(width, height) ==
    [ NoDraw EXCEPT !.fn = "drawZigZag", !.width = width, !.height = height,
                    !.cells = ZigZag(0, 0, 1, width, height, {}) ]

(* drawRandomWalk up to its loop, and one iteration of the loop with the   *)
(* direction rng.Intn(4) returned.                                         *)
drawRandomWalk(width, height) ==
    [ NoDraw EXCEPT !.fn = "drawRandomWalk", !.width = width, !.height = height,
                    !.x = width \div 2, !.y = height \div 2 ]

Clamped(v, size) == IF v < 0 THEN 0 ELSE IF v >= size THEN size - 1 ELSE v

walkIteration(d, dir) ==
    LET x == CASE dir = 0 -> d.x + 1 [] dir = 1 -> d.x - 1 [] OTHER -> d.x
        y == CASE dir = 2 -> d.y + 1 [] dir = 3 -> d.y - 1 [] OTHER -> d.y
    IN [ d EXCEPT !.cells = {<<d.x, d.y>>}, !.i = @ + 1,
                  !.x = Clamped(x, d.width), !.y = Clamped(y, d.height) ]

-----------------------------------------------------------------------------
(* The pattern Manager.  A visualizator is its Enabled slice.              *)

NewManager ==
    [ visualizators  |-> << <<TRUE>>, <<TRUE>>, <<TRUE>>, <<TRUE>>,
                            <<TRUE, TRUE, TRUE, TRUE>> >>,
      currentIndex   |-> 0,
      shuffleEnabled |-> FALSE ]

CurrentValid(m) == m.currentIndex >= 0 /\ m.currentIndex < Len(m.visualizators)
Current(m) == m.visualizators[m.currentIndex + 1]
HasEnabled(enabled) == \E i \in 1..Len(enabled) : enabled[i]

CycleVisualizator(m) ==
    IF Len(m.visualizators) > 1
    THEN [m EXCEPT !.currentIndex = (@ + 1) % Len(m.visualizators)]
    ELSE m

ToggleShuffle(m) == [m EXCEPT !.shuffleEnabled = ~@]

SetVisualizator(m, index) ==
    IF index >= 0 /\ index < Len(m.visualizators)
    THEN [m EXCEPT !.currentIndex = index]
    ELSE m

(* draws[i] is the outcome of the i-th comparison of m.rng.Float64() with  *)
(* its threshold.                                                          *)
ShuffleCurrentVisualizator(m, draws) ==
    IF ~CurrentValid(m) THEN m
    ELSE LET cur == Current(m)
             enabledCount == Cardinality({ i \in 1..Len(cur) : cur[i] })
             shuffled == IF enabledCount <= 1
                         THEN [ i \in 1..Len(cur) |-> draws[i] ]
                         ELSE [ i \in 1..Len(cur) |->
                                  IF draws[i] THEN ~cur[i] ELSE cur[i] ]
             kept == IF ~HasEnabled(shuffled) /\ Len(shuffled) > 0
                     THEN [shuffled EXCEPT ![1] = TRUE]
                     ELSE shuffled
         IN [m EXCEPT !.visualizators[m.currentIndex + 1] = kept]

TogglePatternInCurrent_NoGuard(m, patternIndex) ==
    IF ~CurrentValid(m) THEN m
    ELSE IF patternIndex >= 0 /\ patternIndex < Len(Current(m))
         THEN [m EXCEPT !.visualizators[m.currentIndex + 1][patternIndex + 1] = ~@]
         ELSE m

TogglePatternInCurrent(m, patternIndex) ==
    IF ~CurrentValid(m) THEN m
    ELSE IF patternIndex >= 0 /\ patternIndex < Len(Current(m))
         THEN LET toggled == [Current(m) EXCEPT ![patternIndex + 1] = ~@]
                  kept == IF ~HasEnabled(toggled)
                          THEN [toggled EXCEPT ![patternIndex + 1] = TRUE]
                          ELSE toggled
              IN [m EXCEPT !.visualizators[m.currentIndex + 1] = kept]
         ELSE m

-----------------------------------------------------------------------------
(* The MusicPlayer.  tracks is the number of files loadTracks found;       *)
(* goroutines counts the live visualizer goroutines and waiters the        *)
(* goroutines waiting on done; speaker says that a track is being played;  *)
(* blocked, that a call is stuck in the send on stopVisualizer, and        *)
(* locked, that it is stuck there holding playbackLock.                    *)
MaxTracks == 2
MaxWaiters == 2

NewMusicPlayer(tracks) ==
    [ tracks       |-> tracks,
      isPlaying    |-> FALSE,
      currentTrack |-> 0,          \* 0 is ""
      streamer     |-> "nil",      \* "nil", "open", "closed"
      ticker       |-> "nil",      \* visualizerTicker: "nil", "running", "stopped"
      goroutines   |-> 0,
      waiters      |-> 0,
      speaker      |-> FALSE,
      blocked      |-> FALSE,
      locked       |-> FALSE,
      err          |-> FALSE ]

(* MusicPlayer.Stop.  The send on the unbuffered stopVisualizer completes  *)
(* when a visualizer goroutine receives it; with none it never does.       *)
mpStop(m, closeOK) ==
    IF ~m.isPlaying THEN [m EXCEPT !.err = TRUE]
    ELSE IF m.goroutines = 0 THEN [m EXCEPT !.blocked = TRUE]
    ELSE LET a == [m EXCEPT !.goroutines = @ - 1,
                            !.ticker = IF @ = "nil" THEN "nil" ELSE "stopped",
                            !.speaker = FALSE]
         IN IF ~closeOK THEN [a EXCEPT !.err = TRUE]
            ELSE [a EXCEPT !.streamer = "closed", !.isPlaying = FALSE,
                           !.currentTrack = 0, !.err = FALSE]

(* MusicPlayer.Play, with the track drawn and the answers of os.Open,      *)
(* mp3.Decode and streamer.Close; received says whether the non-blocking   *)
(* send found a goroutine waiting.                                         *)
mpPlay(m, track, openOK, decodeOK, closeOK, received) ==
    LET a == IF m.isPlaying THEN mpStop(m, closeOK) ELSE m
    IN IF a.blocked THEN [a EXCEPT !.locked = TRUE]
       ELSE IF a.tracks = 0 THEN [a EXCEPT !.err = TRUE]
       ELSE LET b == [a EXCEPT !.currentTrack = track]
            IN IF ~openOK THEN [b EXCEPT !.err = TRUE]
               ELSE IF ~decodeOK THEN [b EXCEPT !.streamer = "nil", !.err = TRUE]
               ELSE [b EXCEPT !.streamer = "open", !.speaker = TRUE,
                              !.isPlaying = TRUE, !.ticker = "running",
                              !.goroutines = (IF received THEN @ - 1 ELSE @) + 1,
                              !.waiters = @ + 1, !.err = FALSE]

AuxInit == draw = NoDraw /\ mgr = NewManager /\ mp = NewMusicPlayer(0)

-----------------------------------------------------------------------------
(* Specifications.                                                         *)

Init ==
    /\ engine \in {"AudioManager", "Player"}
    /\ am = NewAudioManager
    /\ ap = NewAudioPlayer
    /\ Peak = 0
    /\ pl = NewPlayer
    /\ last = [ op |-> "new", err |-> FALSE,
                pre |-> [idx |-> 0, stream |-> "nil", capturing |-> FALSE],
                prePeak |-> 0, fed |-> 0 ]
    /\ th = AllIdle
    /\ locks = FreeLocks
    /\ run = NoRun /\ AuxInit

Next ==
    \/ APInitialize \/ APStart \/ APStop \/ APRestart \/ APCycleDevice
    \/ APCleanup
    \/ PInitialize \/ PStart \/ PStop \/ PRestart \/ PCycleDevice \/ PCleanup

(* The engines driven through AudioPlayer and audio.Player.                *)
Spec == Init /\ [][Next]_vars

(* The same, with AudioManager.OpenCurrentDevice also called directly.     *)
SpecDirect == Init /\ [][Next \/ AMOpenCurrentDevice]_vars

(* A running program: the engine initialized on a machine with one        *)
(* running-sink monitor and one stereo device, then started, stopped,     *)
(* cycled and fed audio.                                                   *)
RunSnapshot == [ sources |-> <<"run">>, pa |-> <<2>> ]

InitRun ==
    /\ engine = "AudioManager"
    /\ am = Initialize(NewAudioManager, RunSnapshot, TRUE)
    /\ ap = NewAudioPlayer
    /\ Peak = 0
    /\ pl = NewPlayer
    /\ last = [ op |-> "Initialize", err |-> FALSE,
                pre |-> [idx |-> 0, stream |-> "nil", capturing |-> FALSE],
                prePeak |-> 0, fed |-> 0 ]
    /\ th = AllIdle
    /\ locks = FreeLocks
    /\ run = NoRun /\ AuxInit

NextRun ==
    \/ APStart \/ APStop \/ APCycleDevice \/ AudioCallback \/ Tick

SpecRun == InitRun /\ [][NextRun]_vars

(* The signal path of a capturing engine: buffers arrive, the visualizer  *)
(* goroutine ticks, the user changes the sensitivity.                      *)
InitSignal ==
    /\ engine = "AudioManager"
    /\ am = StartCapture(Initialize(NewAudioManager, RunSnapshot, TRUE),
                         [defaultOK |-> TRUE, defaultCh |-> 2, accepts |-> {1}], TRUE)
    /\ ap = apStart(NewAudioPlayer)
    /\ Peak = 0
    /\ pl = NewPlayer
    /\ last = [ op |-> "Start", err |-> FALSE,
                pre |-> [idx |-> 0, stream |-> "nil", capturing |-> FALSE],
                prePeak |-> 0, fed |-> 0 ]
    /\ th = AllIdle
    /\ locks = FreeLocks
    /\ run = NoRun /\ AuxInit

NextSignal ==
    \/ AudioCallback \/ Tick
    \/ APIncreaseSensitivity \/ APDecreaseSensitivity

SpecSignal == InitSignal /\ [][NextSignal]_vars

(* The program of AudioPlayerMain after Initialize, thread by thread: keys *)
(* and queued redraws on the event loop, the render goroutine, PortAudio's *)
(* callback thread and the visualizer goroutine.                           *)
InitConc ==
    /\ engine = "AudioManager"
    /\ am = Initialize(NewAudioManager, RunSnapshot, TRUE)
    /\ ap = SetUpdateInfoFunc(NewAudioPlayer)
    /\ Peak = 0
    /\ pl = NewPlayer
    /\ last = [ op |-> "Initialize", err |-> FALSE,
                pre |-> [idx |-> 0, stream |-> "nil", capturing |-> FALSE],
                prePeak |-> 0, fed |-> 0 ]
    /\ th = AllIdle
    /\ locks = FreeLocks
    /\ run = NoRun /\ AuxInit

NextConc ==
    \/ Callback \/ TickerFires \/ QueueDraw \/ Redraw \/ KeyPressed
    \/ \E t \in {"cb", "viz", "ui"} : Step(t)

SpecConc == InitConc /\ [][NextConc]_vars

(* Two callers using one AudioPlayer at the same time.                     *)
NextCtl == \E t \in Callers : ControlCall(t) \/ Step(t)

SpecCtl == InitConc /\ [][NextCtl]_vars

-----------------------------------------------------------------------------
(* Properties.                                                             *)

Managed == engine = "AudioManager"
OpenStates == {"open", "started"}

(* C1 (as claimed): when AudioManager.CycleDevice, called on a capturing   *)
(* engine with at least two devices, cannot open the next device, the      *)
(* engine still names the device it was on and IsCapturing() is unchanged. *)
C1_CycleFailureUnchanged ==
    ( /\ Managed /\ last.op = "CycleDevice" /\ Len(am.devices) >= 2
      /\ last.pre.capturing /\ last.pre.stream = "started"
      /\ last.err /\ am.paStream = "nil" )
    => /\ GetCurrentDeviceName(am) = am.devices[last.pre.idx + 1].Name
       /\ IsCapturing(am) = last.pre.capturing

(* C2 (as claimed): if audio.Player had a capture stream open before       *)
(* CycleDevice, it has one open after it, whatever the native opens did.   *)
C2_NeverStreamless ==
    (engine = "Player" /\ last.op = "CycleDevice" /\ last.pre.stream \in OpenStates)
    => pl.paStream \in OpenStates

(* C3: after UpdatePeak(p) on envelope e GetPeak returns max(e*decay, p),  *)
(* which is p itself when p > e*decay; nothing else changes the envelope.  *)
C3_PeakHold ==
    LET d == Decayed(last.prePeak)
    IN IF last.op = "Tick"
       THEN /\ GetPeak(Peak) = Max2(d, last.fed)
            /\ last.fed > d => GetPeak(Peak) = last.fed
       ELSE Peak = last.prePeak

C3_Witness ==
    /\ last.op = "Tick" /\ last.prePeak > 0
    /\ last.fed > Decayed(last.prePeak)
    /\ last.fed # last.prePeak
    /\ Peak = last.fed

(* C4 (as claimed): the value the tick loop passes to UpdatePeak is in     *)
(* [0,1] for every buffer delivered and every reachable sensitivity.       *)
C4_FedClamped ==
    last.op = "Tick" => (0 <= last.fed /\ last.fed <= Scale)

(* The fields a thread touches in its next step, and the lock of a field.  *)
Access(t) == IF Running(t) /\ NextStep(t).k = "Do" THEN NextStep(t).acc ELSE {}
LockOf(f) == IF f = "Peak" THEN "peakMutex" ELSE "mutex"
Protected(t, a) ==
    \/ locks[LockOf(a[1])].w = t
    \/ a[2] = "r" /\ t \in locks[LockOf(a[1])].r
EngineState == {"peakLevel", "Peak", "paStream", "isCapturing", "currentDeviceIdx"}

(* C5: in the running program no thread is about to write the loudness    *)
(* value (peakLevel, the envelope) or paStream, isCapturing or             *)
(* currentDeviceIdx while another thread is about to read or write the     *)
(* same field, unless both hold the field's lock (the writer exclusively). *)
(* The session fields are touched by the event-loop goroutine alone.       *)
C5_NoUnprotectedAccess ==
    \A t1 \in Threads : \A t2 \in Threads \ {t1} :
        \A a1 \in Access(t1), a2 \in Access(t2) :
            (a1[1] = a2[1] /\ a1[1] \in EngineState /\ a1[2] = "w")
            => (Protected(t1, a1) /\ Protected(t2, a2))

C5_Witness ==
    /\ Running("cb") /\ W("peakLevel") \in Access("cb")
    /\ Running("viz") /\ NextStep("viz") = RLock("mutex")
    /\ Running("ui") /\ W("isCapturing") \in Access("ui")
    /\ th["render"].op = "Draw"

(* C6 (as claimed): of two control calls on AudioPlayer issued at the same *)
(* time, one has not taken its first step until the other has run to       *)
(* completion.                                                             *)
C6_ControlAtomic == ~(th["c1"].begun /\ th["c2"].begun)

(* C7: the number of native streams opened and not yet closed is 0 or 1,   *)
(* for AudioManager (OpenCurrentDevice called directly too) and for        *)
(* audio.Player, whatever the native opens answer.                         *)
C7_AtMostOneSession ==
    /\ am.nativeOpen \in {0, 1}
    /\ pl.nativeOpen \in {0, 1}

C7_Witness ==
    /\ Managed /\ last.op = "OpenCurrentDevice"
    /\ last.pre.stream = "started" /\ ~last.err
    /\ am.nativeOpen = 1

C9_StopIdempotent ==
    (Managed /\ last.op = "Stop" /\ ~last.pre.capturing)
    => /\ ~last.err
       /\ am.isCapturing = last.pre.capturing
       /\ am.paStream = last.pre.stream
       /\ am.currentDeviceIdx = last.pre.idx
       /\ Peak = last.prePeak

C9_Witness ==
    /\ Managed /\ last.op = "Stop" /\ ~last.pre.capturing
    /\ last.pre.stream = "open" /\ Peak > 0 /\ am.currentDeviceIdx = 1

C11_InitFailsOnly ==
    (engine = "Player" /\ last.op = "Initialize" /\ last.err)
    => (pl.paInit = 0 \/ Len(pl.devices) = 0)

(* The engines after Initialize has returned, with any outcome, and the    *)
(* calls that follow it.                                                   *)
InitInitialized ==
    /\ \/ /\ engine = "AudioManager"
          /\ \E snap \in Snapshots, paOK \in BOOLEAN :
                am = Initialize(NewAudioManager, snap, paOK)
          /\ pl = NewPlayer
       \/ /\ engine = "Player"
          /\ am = NewAudioManager
          /\ \E snap \in PlayerSnapshots, paOK, devicesOK, openOK \in BOOLEAN :
                pl = PlayerInitialize(NewPlayer, snap, paOK, devicesOK, openOK)
    /\ ap = NewAudioPlayer
    /\ Peak = 0
    /\ last = [ op |-> "Initialize",
                err |-> IF engine = "Player" THEN pl.err ELSE am.err,
                pre |-> [idx |-> 0, stream |-> "nil", capturing |-> FALSE],
                prePeak |-> 0, fed |-> 0 ]
    /\ th = AllIdle
    /\ locks = FreeLocks
    /\ run = NoRun /\ AuxInit

NextInitialized ==
    \/ APStart \/ APStop \/ APRestart \/ APCycleDevice \/ APCleanup
    \/ PStart \/ PStop \/ PRestart \/ PCycleDevice \/ PCleanup

SpecInitialized == InitInitialized /\ [][NextInitialized]_vars

(* C12 (as claimed): after Initialize, whatever its outcome, and any       *)
(* number of Cleanup calls, PortAudio has not been terminated more often   *)
(* than it was initialized and no stream was closed that was not open.     *)
C12_CleanupSafe ==
    /\ ~pl.badTerminate
    /\ am.paInit >= 0 /\ pl.paInit >= 0
    /\ am.nativeOpen >= 0 /\ pl.nativeOpen >= 0

(* The earlier revision of audio.Player.CycleDevice: it stops, opens the   *)
(* next device and starts, whether or not the engine was running, and      *)
(* keeps the advanced index when the open fails.                           *)
PlayerCycleDeviceEarlier(p, openOK, startOK) ==
    IF Len(p.devices) <= 1 THEN [p EXCEPT !.err = FALSE]
    ELSE LET a == [p EXCEPT !.currentDeviceIdx = (@ + 1) % Len(p.devices)]
             b == PlayerStop(a)
             c == PlayerOpenStream(b, b.devices[b.currentDeviceIdx + 1], openOK)
         IN IF c.err THEN c ELSE PlayerStart(c, startOK)

PCycleDeviceEarlier ==
    /\ OnPlayer
    /\ \E openOK, startOK \in BOOLEAN :
          /\ pl' = PlayerCycleDeviceEarlier(pl, openOK, startOK)
          /\ last' = Called("CycleDevice", pl, pl'.err, 0)
    /\ UNCHANGED <<engine, am, ap, Peak, conc, run, aux>>

(* Both engines, audio.Player with the CycleDevice of either revision.     *)
SpecRevisions == Init /\ [][Next \/ PCycleDeviceEarlier]_vars

NowCapturing == IF Managed THEN am.isCapturing ELSE pl.running
NowStream == IF Managed THEN am.paStream ELSE pl.paStream
NowIndex == IF Managed THEN am.currentDeviceIdx ELSE pl.currentDeviceIdx
NowDevices == IF Managed THEN Len(am.devices) ELSE Len(pl.devices)

(* CycleDevice has just opened the next device, and no native call it     *)
(* made was rejected.                                                      *)
CycledToNext ==
    /\ last.op = "CycleDevice" /\ ~last.err
    /\ NowDevices >= 1
    /\ NowIndex = (last.pre.idx + 1) % NowDevices
    /\ NowStream \in OpenStates
    /\ ~(Managed /\ am.panicked)

(* C13 (as claimed): when CycleDevice has opened the next device, the      *)
(* engine is capturing after the call exactly if it was before it.         *)
C13_CyclePreservesRunning ==
    CycledToNext => (NowCapturing = last.pre.capturing)

(* CycleDevice calls, counted: run.n successful calls in a row (a call of  *)
(* audio.Player is successful when the next device opened, a call of       *)
(* AudioManager when it returned no error), begun at index run.from.  A    *)
(* run that has gone through all devices begins again.                     *)
Counted(n, pre, ok) ==
    IF ~ok THEN NoRun
    ELSE IF run.n = 0 \/ run.n >= n THEN [ n |-> 1, from |-> pre.currentDeviceIdx ]
    ELSE [ run EXCEPT !.n = @ + 1 ]

APCycleDeviceCounted ==
    /\ OnManager
    /\ \E o \in OpenOutcomes, startOK \in BOOLEAN :
          /\ am' = CycleDevice(am, o, startOK)
          /\ last' = Called("CycleDevice", am, am'.err, 0)
          /\ run' = Counted(Len(am.devices), am, ~am'.err /\ ~am'.panicked)
    /\ UNCHANGED <<engine, ap, Peak, pl, conc, aux>>

PCycleDeviceCounted ==
    /\ OnPlayer
    /\ \E openOK, reopenOK, startOK \in BOOLEAN :
          LET n == Len(pl.devices)
              next == pl.devices[((pl.currentDeviceIdx + 1) % n) + 1]
              opened == n <= 1 \/ ~PlayerOpenStream(pl, next, openOK).err
          IN /\ pl' = PlayerCycleDevice(pl, openOK, reopenOK, startOK)
             /\ last' = Called("CycleDevice", pl, pl'.err, 0)
             /\ run' = Counted(n, pl, opened)
    /\ UNCHANGED <<engine, am, ap, Peak, conc, aux>>

NextCycle ==
    \/ APStart \/ APStop \/ PStart \/ PStop
    \/ APCycleDeviceCounted \/ PCycleDeviceCounted

(* The engines after Initialize, started, stopped and cycled.              *)
SpecCycle == InitInitialized /\ [][NextCycle]_vars

(* C14: with N >= 1 devices, a successful CycleDevice from index i leaves  *)
(* the index at (i+1) mod N; after k successful calls in a row from index  *)
(* j it is (j+k) mod N, and after N of them it is j again.                 *)
C14_CycleAdvances ==
    (run.n > 0 /\ NowDevices >= 1)
    => /\ last.op = "CycleDevice" => NowIndex = (last.pre.idx + 1) % NowDevices
       /\ NowIndex = (run.from + run.n) % NowDevices
       /\ run.n = NowDevices => NowIndex = run.from

C14_Witness ==
    /\ Managed /\ last.op = "CycleDevice"
    /\ Len(am.devices) = MaxSources + MaxPA
    /\ run.n = Len(am.devices) /\ am.currentDeviceIdx = run.from

(* The event loop is in AudioPlayer.Restart, called for the r key, and     *)
(* its Start has just called StartCapture.                                 *)
RestartStarted ==
    /\ th["ui"].op = "r"
    /\ th["ui"].prog = << Unlock("captureLock") >> \o updateInfoProgram

(* C15: AudioPlayer.Restart stops before it starts: when its Start calls   *)
(* StartCapture the engine is not capturing and no stream is started       *)
(* (a capturing engine has been stopped by then), and when StartCapture    *)
(* returns no error, which is what Restart returns, the engine is          *)
(* capturing on a started stream, whether or not it was capturing before.  *)
C15_RestartStopsThenStarts ==
    /\ ( /\ th["ui"].op = "r" /\ Running("ui")
         /\ NextStep("ui").eff = "StartCapture" )
       => (~am.isCapturing /\ am.paStream # "started")
    /\ (RestartStarted /\ ~am.err)
       => (am.isCapturing /\ am.paStream = "started")

C15_Witness ==
    /\ RestartStarted /\ th["ui"].wasCapturing
    /\ ~am.err /\ am.isCapturing /\ am.paStream = "started"

(* The last call closed a stream that was started: OpenCurrentDevice and   *)
(* openStream close the stream they find without stopping it; CycleDevice  *)
(* and Cleanup stop it first, but only when the engine is marked capturing *)
(* (running).                                                              *)
ClosedWhileStarted ==
    /\ last.pre.stream = "started"
    /\ \/ /\ Managed /\ last.op = "OpenCurrentDevice"
          /\ last.pre.idx < Len(am.devices)
       \/ /\ Managed /\ last.op = "CycleDevice"
          /\ ~last.pre.capturing /\ Len(am.devices) > 0
       \/ /\ ~Managed /\ last.op = "CycleDevice"
          /\ ~last.pre.capturing /\ Len(pl.devices) > 1
       \/ last.op = "Cleanup" /\ ~last.pre.capturing

(* C16 (as claimed): no call of CycleDevice, OpenCurrentDevice/openStream  *)
(* or Cleanup closes a stream that is started.                             *)
C16_StopBeforeClose == ~ClosedWhileStarted

-----------------------------------------------------------------------------
(* The audio test of `main test`: SimpleAudioTester.                       *)

(* SimpleAudioTester.audioCallback: the peak of the buffer, then the level *)
(* printed to the terminal, all of it under sat.mutex (deferred Unlock).   *)
satAudioCallbackProgram ==
    << Lock("satMutex"),
       Do({W("sat.peakLevel"), W("sat.lastAudioTime")}, "satPeak"),
       Do({}, "Printf"),
       Unlock("satMutex") >>

(* testAudioCapture on its goroutine: Initialize, Start, the wait for the  *)
(* interrupt, Stop, the deferred Cleanup.  A failed Initialize or Start    *)
(* ends the process (log.Fatalf): the thread takes no further step.        *)
testAudioCaptureProgram ==
    << Do({W("sat.paStream")}, "satInitialize"),
       Do({R("sat.paStream"), W("sat.running")}, "satStart"),
       Do({}, "waitSignal"),
       Do({R("sat.paStream"), R("sat.running"), W("sat.running")}, "satStop"),
       Do({R("sat.paStream"), R("sat.running")}, "satCleanup") >>

TestAudioCapture ==
    /\ engine = "SimpleAudioTester"
    /\ th["test"].op = "idle"
    /\ th' = [ th EXCEPT !["test"] = [ Idle EXCEPT !.op = "testAudioCapture",
                                              !.prog = testAudioCaptureProgram ] ]
    /\ UNCHANGED <<engine, am, ap, Peak, pl, last, locks, run, aux>>

(* PortAudio calls back while the tester's stream is started: after Start  *)
(* returned and until Stop has returned.                                   *)
TesterCallback ==
    /\ engine = "SimpleAudioTester"
    /\ Running("test") /\ NextStep("test").eff \in {"waitSignal", "satStop"}
    /\ th["satcb"].op = "idle"
    /\ th' = [ th EXCEPT !["satcb"] = [ Idle EXCEPT !.op = "audioCallback",
                                               !.prog = satAudioCallbackProgram ] ]
    /\ UNCHANGED <<engine, am, ap, Peak, pl, last, locks, run, aux>>

(* Either program of main.go, thread by thread: AudioPlayerMain after      *)
(* Initialize, or the audio test.                                          *)
InitCallback ==
    /\ engine \in {"AudioManager", "SimpleAudioTester"}
    /\ am = IF engine = "AudioManager"
            THEN Initialize(NewAudioManager, RunSnapshot, TRUE)
            ELSE NewAudioManager
    /\ ap = SetUpdateInfoFunc(NewAudioPlayer)
    /\ Peak = 0
    /\ pl = NewPlayer
    /\ last = [ op |-> "Initialize", err |-> FALSE,
                pre |-> [idx |-> 0, stream |-> "nil", capturing |-> FALSE],
                prePeak |-> 0, fed |-> 0 ]
    /\ th = AllIdle
    /\ locks = FreeLocks
    /\ run = NoRun /\ AuxInit

NextCallback ==
    \/ Callback \/ TickerFires \/ QueueDraw \/ Redraw \/ KeyPressed
    \/ TestAudioCapture \/ TesterCallback
    \/ \E t \in {"cb", "viz", "ui", "test", "satcb"} : Step(t)

SpecCallback == InitCallback /\ [][NextCallback]_vars

(* Steps that write to the terminal, sleep or wait, or make an OS-level    *)
(* open, close, start or stop.                                             *)
BlockingEffects ==
    { "Printf", "Sleep", "waitSignal",
      "StartCapture", "StopCapture", "StopIfCapturing", "OpenCurrentDevice",
      "StartIfCapturing",
      "satInitialize", "satStart", "satStop", "satCleanup" }

(* C17 (as claimed): a thread that holds a lock the audio callback takes   *)
(* (AudioManager.mutex, SimpleAudioTester.mutex) is not at a step that     *)
(* does I/O, sleeps or makes an OS-level stream call.                      *)
C17_CallbackLockShort ==
    \A t \in Threads :
        \A l \in {"mutex", "satMutex"} :
            (locks[l].w = t \/ t \in locks[l].r)
                => ~(Running(t) /\ NextStep(t).eff \in BlockingEffects)

-----------------------------------------------------------------------------
(* The envelope under silence: a capturing engine whose callback has       *)
(* stored a level of 0, the envelope at any value of MaxEnvelope units of  *)
(* the smallest positive float64 or less, and the visualizer goroutine     *)
(* ticking for ever, each tick calling UpdatePeak(0).                      *)
MaxEnvelope == 120

InitDecay ==
    /\ engine = "AudioManager"
    /\ am = StartCapture(Initialize(NewAudioManager, RunSnapshot, TRUE),
                         [defaultOK |-> TRUE, defaultCh |-> 2, accepts |-> {1}], TRUE)
    /\ ap = apStart(NewAudioPlayer)
    /\ Peak \in 0..MaxEnvelope
    /\ pl = NewPlayer
    /\ last = [ op |-> "Start", err |-> FALSE,
                pre |-> [idx |-> 0, stream |-> "nil", capturing |-> FALSE],
                prePeak |-> Peak, fed |-> 0 ]
    /\ th = AllIdle
    /\ locks = FreeLocks
    /\ run = NoRun /\ AuxInit

SpecDecay == InitDecay /\ [][Tick]_vars /\ WF_vars(Tick)

(* C18 (as claimed): under UpdatePeak(0) calls GetPeak() never increases   *)
(* and eventually is below every positive threshold, the smallest          *)
(* positive value (one unit) included.                                     *)
C18_DecaysToZero ==
    /\ [][GetPeak(Peak') <= GetPeak(Peak)]_vars
    /\ <>(GetPeak(Peak) < 1)

(* C18 (amended): under UpdatePeak(0) calls GetPeak() never increases and  *)
(* eventually is at a value of less than ten units, where it stays: it is  *)
(* below every threshold of ten units or more, and reaches 0 only from 0.  *)
C18_DecaysToFloor ==
    /\ [][GetPeak(Peak') <= GetPeak(Peak)]_vars
    /\ <>[](GetPeak(Peak) < 10 /\ UpdatePeak(Peak, 0) = Peak)
    /\ [](GetPeak(Peak) = 0 => last.prePeak = 0)

C18_Witness ==
    /\ last.op = "Tick" /\ last.fed = 0
    /\ last.prePeak = 10 /\ GetPeak(Peak) = 9

(* C19 (as claimed): after any sequence of IncreaseSensitivity and         *)
(* DecreaseSensitivity calls the sensitivity of AudioPlayer is within      *)
(* [0.2, 5.0].                                                             *)
C19_SensitivityInRange ==
    /\ ~FloatLess(ap.peakSensitivity, [n |-> 1, e |-> 0])
    /\ ~FloatLess([n |-> 25, e |-> 0], ap.peakSensitivity)

-----------------------------------------------------------------------------
(* Device detection on machines with up to MaxRank monitor sources.        *)
MaxRank == 3

RankSnapshots ==
    [ sources : SeqsUpTo(SourceKinds, MaxRank),
      pa      : SeqsUpTo(ChannelCounts, MaxPA) ]

APInitializeRanked ==
    /\ OnManager
    /\ last.op = "new"
    /\ \E snap \in RankSnapshots, paOK \in BOOLEAN :
          /\ am' = Initialize(am, snap, paOK)
          /\ last' = Called("Initialize", am, am'.err, 0)
    /\ UNCHANGED <<engine, ap, Peak, pl, conc, run, aux>>

SpecRank == Init /\ [][APInitializeRanked]_vars

(* C20: whatever the OS reported, in the list Initialize built from it no  *)
(* monitor of an idle sink comes before a monitor of a running sink, and   *)
(* no PortAudio device comes before a monitor.  The k-th monitor source    *)
(* of the report carries the number k - 1 in its name.                     *)
C20_Ranked ==
    \A snap \in RankSnapshots :
        am.devices = detectAudioSources(NewAudioManager, snap).devices =>
            \A i, j \in 1..Len(am.devices) :
                LET a == am.devices[i]
                    b == am.devices[j]
                IN (i < j /\ b.Type = "pulse_monitor") =>
                      /\ a.Type = "pulse_monitor"
                      /\ snap.sources[b.Name[2] + 1] = "run"
                            => snap.sources[a.Name[2] + 1] = "run"

C20_Witness ==
    /\ Managed /\ last.op = "Initialize" /\ ~last.err
    /\ Len(am.devices) = MaxRank + 1
    /\ am.devices[1].Name = <<"src", MaxRank - 1>>
    /\ am.devices[2].Name = <<"src", 0>>
    /\ am.devices[MaxRank].Name = <<"src", 1>>
    /\ am.devices[MaxRank + 1].Type = "portaudio"

-----------------------------------------------------------------------------
(* A second enumeration: Initialize called again on the same manager while *)
(* the OS reports what it reported the first time.                         *)
Reenumerate ==
    /\ OnManager
    /\ am.paInit < 2
    /\ \E snap \in Snapshots, paOK \in BOOLEAN :
          /\ am.devices = detectAudioSources(NewAudioManager, snap).devices
          /\ am' = Initialize(am, snap, paOK)
          /\ last' = Called("Reenumerate", am, am'.err, 0)
    /\ UNCHANGED <<engine, ap, Peak, pl, conc, run, aux>>

SpecTwice == Init /\ [][Next \/ Reenumerate]_vars

(* C21 (as claimed): a second enumeration of the same snapshot leaves the  *)
(* device list and the selected device as the first one made them.         *)
C21_SameRanking ==
    [][(last'.op = "Reenumerate" /\ ~last'.err)
          => /\ am'.devices = am.devices
             /\ am'.currentDeviceIdx = am.currentDeviceIdx]_vars

-----------------------------------------------------------------------------
(* Device detection on machines whose PortAudio devices carry any of       *)
(* MaxNames names, two devices of one name included.                       *)
MaxNames == 2

NamedSnapshots ==
    { [ sources |-> s, pa |-> p, names |-> n ] :
        s \in SeqsUpTo(SourceKinds, MaxSources),
        p \in SeqsUpTo(ChannelCounts, MaxPA),
        n \in SeqsUpTo(0..(MaxNames - 1), MaxPA) }

APInitializeNamed ==
    /\ OnManager
    /\ last.op = "new"
    /\ \E snap \in NamedSnapshots, paOK \in BOOLEAN :
          /\ Len(snap.names) = Len(snap.pa)
          /\ am' = Initialize(am, snap, paOK)
          /\ last' = Called("Initialize", am, am'.err, 0)
    /\ UNCHANGED <<engine, ap, Peak, pl, conc, run, aux>>

SpecNamed == Init /\ [][APInitializeNamed \/ APCycleDevice]_vars

(* C22 (as claimed): after an enumeration no two entries of the device     *)
(* list have the same ID.                                                  *)
C22_UniqueIDs ==
    \A i, j \in 1..Len(am.devices) :
        i # j => am.devices[i].ID # am.devices[j].ID

-----------------------------------------------------------------------------
(* openStreamWithDevice on any device and any answer of the native open.   *)
(* PortAudio rejects a channel count above the device's MaxInputChannels,  *)
(* so the native open accepts only configurations the device can carry.    *)
NativeAccepts(maxCh) ==
    SUBSET { i \in 1..Len(Configs) : Configs[i].channels <= maxCh }

OpenWithDevice ==
    /\ OnManager
    /\ am.isInitialized
    /\ \E maxCh \in ChannelCounts \ {0} :
          \E accepts \in NativeAccepts(maxCh) :
             LET o == [ defaultOK |-> TRUE, defaultCh |-> maxCh, accepts |-> accepts ]
                 c == closeExisting(StopCapture(am))
             IN /\ am' = openStreamWithDevice(c, maxCh, o)
                /\ last' = Called("openStreamWithDevice", am, am'.err, 0)
                           @@ [ maxCh |-> maxCh, accepts |-> accepts,
                                config |-> OpenedConfig(maxCh, o, c.paInit > 0) ]
    /\ UNCHANGED <<engine, ap, Peak, pl, conc, run, aux>>

SpecOpen == InitInitialized /\ [][OpenWithDevice \/ APStart]_vars

(* C23: openStreamWithDevice opens the stream with the first entry of the  *)
(* table that the native open accepts, and returns an error only when the  *)
(* native open accepts no entry.                                           *)
C23_FirstAccepted ==
    last.op = "openStreamWithDevice" =>
        IF last.accepts = {}
        THEN last.err /\ last.config = 0 /\ am.paStream = "nil"
        ELSE /\ ~last.err /\ am.paStream = "open"
             /\ last.config \in last.accepts
             /\ \A i \in last.accepts : last.config <= i

C23_Witness ==
    /\ last.op = "openStreamWithDevice"
    /\ last.maxCh = 1 /\ last.accepts = {2, 4}
    /\ last.config = 2 /\ ~last.err /\ am.paStream = "open"

-----------------------------------------------------------------------------
(* The pattern routines called on any viewport.                            *)
Drawing == draw.fn = "drawRandomWalk" /\ draw.i < WalkIterations

DrawZigZag ==
    /\ ~Drawing
    /\ \E width \in 0..MaxWidth, height \in 0..MaxHeight :
          draw' = drawZigZag(width, height)
    /\ UNCHANGED <<engine, am, ap, Peak, pl, last, conc, run, mgr, mp>>

DrawRandomWalk ==
    /\ ~Drawing
    /\ \E width \in 0..MaxWidth, height \in 0..MaxHeight :
          draw' = drawRandomWalk(width, height)
    /\ UNCHANGED <<engine, am, ap, Peak, pl, last, conc, run, mgr, mp>>

WalkIteration ==
    /\ Drawing
    /\ \E dir \in 0..3 : draw' = walkIteration(draw, dir)
    /\ UNCHANGED <<engine, am, ap, Peak, pl, last, conc, run, mgr, mp>>

SpecDraw == Init /\ [][DrawZigZag \/ DrawRandomWalk \/ WalkIteration]_vars

(* C24 (as claimed): every cell drawZigZag and drawRandomWalk write lies   *)
(* inside the viewport, 0 <= x < width and 0 <= y < height.                *)
C24_InsideViewport ==
    \A c \in draw.cells :
        /\ 0 <= c[1] /\ c[1] < draw.width
        /\ 0 <= c[2] /\ c[2] < draw.height

-----------------------------------------------------------------------------
(* The calls on the pattern Manager, with any index and any random draws.  *)
MMostPatterns == 4

MCycleVisualizator ==
    /\ mgr' = CycleVisualizator(mgr)
    /\ last' = [last EXCEPT !.op = "CycleVisualizator"]
    /\ UNCHANGED <<engine, am, ap, Peak, pl, conc, run, draw, mp>>

MToggleShuffle ==
    /\ mgr' = ToggleShuffle(mgr)
    /\ last' = [last EXCEPT !.op = "ToggleShuffle"]
    /\ UNCHANGED <<engine, am, ap, Peak, pl, conc, run, draw, mp>>

MSetVisualizator ==
    /\ \E index \in -1..Len(mgr.visualizators) : mgr' = SetVisualizator(mgr, index)
    /\ last' = [last EXCEPT !.op = "SetVisualizator"]
    /\ UNCHANGED <<engine, am, ap, Peak, pl, conc, run, draw, mp>>

MShuffleCurrentVisualizator ==
    /\ \E draws \in [1..MMostPatterns -> BOOLEAN] :
          mgr' = ShuffleCurrentVisualizator(mgr, draws)
    /\ last' = [last EXCEPT !.op = "ShuffleCurrentVisualizator"]
    /\ UNCHANGED <<engine, am, ap, Peak, pl, conc, run, draw, mp>>

MTogglePatternInCurrent ==
    /\ \E patternIndex \in -1..MMostPatterns :
          /\ mgr' = TogglePatternInCurrent(mgr, patternIndex)
          /\ last' = [last EXCEPT !.op = "TogglePatternInCurrent",
                                  !.fed = patternIndex]
    /\ UNCHANGED <<engine, am, ap, Peak, pl, conc, run, draw, mp>>

SpecManager ==
    Init /\ [][MCycleVisualizator \/ MToggleShuffle \/ MSetVisualizator
               \/ MShuffleCurrentVisualizator \/ MTogglePatternInCurrent]_vars

(* C25: after any calls of TogglePatternInCurrent,                         *)
(* ShuffleCurrentVisualizator, CycleVisualizator and SetVisualizator every *)
(* visualizator has at least one enabled pattern.                          *)
C25_OneEnabled ==
    \A v \in 1..Len(mgr.visualizators) : HasEnabled(mgr.visualizators[v])

(* The toggle of the only enabled pattern of MixMax left it enabled.       *)
C25_Witness ==
    /\ last.op = "TogglePatternInCurrent" /\ last.fed = 2
    /\ mgr.currentIndex = 4
    /\ Current(mgr) = <<FALSE, FALSE, TRUE, FALSE>>

-----------------------------------------------------------------------------
(* C26: after any Start, Stop and Restart calls at most one goroutine      *)
(* spawned by Start is alive.                                              *)
C26_OneGoroutine == ap.goroutines <= 1

-----------------------------------------------------------------------------
(* The goroutines of the program under a fair scheduler: a goroutine that  *)
(* can take a step takes one.                                              *)
SpecStop ==
    InitConc /\ [][NextConc]_vars
    /\ WF_vars(\E t \in {"cb", "viz", "ui"} : Step(t))

(* C27: once AudioPlayer.Stop has returned (the ticker is stopped and no   *)
(* call is in progress) every goroutine spawned by Start eventually        *)
(* returns.                                                                *)
C27_StopTerminates ==
    (th = AllIdle /\ ap.ticker = "stopped") ~> (ap.goroutines = 0)

-----------------------------------------------------------------------------
(* C28: the visualizer goroutine is never about to write points, scale or  *)
(* depth in UpdateWithPeak while another goroutine is about to read or     *)
(* write the same field (Draw on the event loop).                          *)
C28_VisualizerNotRaced ==
    \A t1 \in Threads : \A t2 \in Threads \ {t1} :
        \A a1 \in Access(t1), a2 \in Access(t2) :
            ~(a1[1] = a2[1] /\ a1[1] \in VisualizerState /\ a1[2] = "w")

-----------------------------------------------------------------------------
ValidIndex == am.currentDeviceIdx >= 0 /\ am.currentDeviceIdx < Len(am.devices)

(* C29 (as claimed): in every reachable state of AudioManager isCapturing  *)
(* is set only while paStream is a started stream, and currentDeviceIdx is *)
(* a valid index into devices.                                             *)
C29_FlagMatchesStream ==
    /\ am.isCapturing => am.paStream = "started"
    /\ ValidIndex

(* C29 (amended): isCapturing is set only while paStream is a started      *)
(* stream, and currentDeviceIdx is a valid index into devices whenever the *)
(* device list is not empty.                                               *)
C29_FlagMatchesStarted ==
    /\ am.isCapturing => am.paStream = "started"
    /\ Len(am.devices) > 0 => ValidIndex

(* A capturing engine on the last of two devices was cycled back to the    *)
(* first and captures again.                                               *)
C29_Witness ==
    /\ Managed /\ last.op = "CycleDevice" /\ last.pre.capturing
    /\ last.pre.idx = 1 /\ am.currentDeviceIdx = 0
    /\ am.isCapturing /\ am.paStream = "started"

-----------------------------------------------------------------------------
(* The calls on the MusicPlayer: Play and Stop from the keys, and Play     *)
(* from a goroutine waiting on done when the track has ended.              *)
InitMusic ==
    /\ engine = "AudioManager"
    /\ am = NewAudioManager
    /\ ap = NewAudioPlayer
    /\ Peak = 0
    /\ pl = NewPlayer
    /\ last = [ op |-> "new", err |-> FALSE,
                pre |-> [idx |-> 0, stream |-> "nil", capturing |-> FALSE],
                prePeak |-> 0, fed |-> 0 ]
    /\ th = AllIdle
    /\ locks = FreeLocks
    /\ run = NoRun
    /\ draw = NoDraw
    /\ mgr = NewManager
    /\ \E tracks \in 0..MaxTracks : mp = NewMusicPlayer(tracks)

MPPlay ==
    /\ ~mp.blocked
    /\ mp.waiters < MaxWaiters
    /\ \E track \in 1..MaxTracks, openOK \in BOOLEAN, decodeOK \in BOOLEAN,
          closeOK \in BOOLEAN, received \in BOOLEAN :
          /\ track <= mp.tracks \/ (mp.tracks = 0 /\ track = 1)
          /\ received => mp.goroutines > (IF mp.isPlaying THEN 1 ELSE 0)
          /\ mp' = mpPlay(mp, track, openOK, decodeOK, closeOK, received)
    /\ last' = [last EXCEPT !.op = "Play", !.err = mp'.err]
    /\ UNCHANGED <<engine, am, ap, Peak, pl, conc, run, draw, mgr>>

MPStop ==
    /\ ~mp.blocked
    /\ \E closeOK \in BOOLEAN : mp' = mpStop(mp, closeOK)
    /\ last' = [last EXCEPT !.op = "Stop", !.err = mp'.err]
    /\ UNCHANGED <<engine, am, ap, Peak, pl, conc, run, draw, mgr>>

(* The track ends: the speaker's callback sends on done, one waiting       *)
(* goroutine receives and calls Play.                                      *)
TrackEnds ==
    /\ ~mp.blocked
    /\ mp.speaker /\ mp.waiters > 0
    /\ \E track \in 1..MaxTracks, openOK \in BOOLEAN, decodeOK \in BOOLEAN,
          closeOK \in BOOLEAN :
          /\ track <= mp.tracks
          /\ mp' = mpPlay([mp EXCEPT !.speaker = FALSE, !.waiters = @ - 1],
                          track, openOK, decodeOK, closeOK, FALSE)
    /\ last' = [last EXCEPT !.op = "done", !.err = mp'.err]
    /\ UNCHANGED <<engine, am, ap, Peak, pl, conc, run, draw, mgr>>

SpecMusic == InitMusic /\ [][MPPlay \/ MPStop \/ TrackEnds]_vars

(* C30: whenever isPlaying is set a visualizer goroutine is there to       *)
(* receive on stopVisualizer, and no call of Stop or Play is stuck in the  *)
(* send.                                                                   *)
C30_StopNeverBlocks ==
    /\ mp.isPlaying => mp.goroutines > 0
    /\ ~mp.blocked

====
